---------------------------- MODULE Spec2Model ----------------------------
(***************************************************************************)
(* State-machine model of the /dev/exec misc device (src/devexec.rs).      *)
(*                                                                         *)
(* A session is one open file of the device.  open() allocates a           *)
(* DevExecDevice holding an empty Mutex<KVVec<u8>>, write_iter() appends   *)
(* the caller's bytes under the mutex, and release() takes the buffer,     *)
(* copies it into a shmem file, and runs /proc/self/fd/3 as a usermode     *)
(* helper whose setup callback (kmod_devexec_init) installs the shmem      *)
(* file at descriptor 3 of the child.                                      *)
(*                                                                         *)
(* The kernel services the module calls (shmem_file_setup, kernel_write,   *)
(* fput, call_usermodehelper_setup, call_usermodehelper_exec, fd_install)  *)
(* are modelled at their call sites by the results they can hand back.     *)
(***************************************************************************)
EXTENDS Integers, Sequences, FiniteSets, TLC

(***************************************************************************)
(* Bounds of the model.                                                    *)
(***************************************************************************)
NumSessions == 2      \* sessions (open files of /dev/exec) that may exist
NumThreads  == 2      \* user threads that may call write on one session
MaxWrites   == 2      \* write_iter calls over the whole run

Sessions == 1 .. NumSessions
Threads  == 1 .. NumThreads
Images   == 1 .. NumSessions     \* at most one shmem file per release()

(***************************************************************************)
(* Inputs of write: an empty payload, a one-byte and a two-byte payload    *)
(* with pairwise different bytes, so that order and truncation show.       *)
(***************************************************************************)
Payloads == { <<>>, <<17>>, <<34, 51>> }

(***************************************************************************)
(* Program constants.                                                      *)
(***************************************************************************)
EXEC_FD       == 3    \* const EXEC_FD: u32 = 3 in kmod_devexec_init
PathFdNext    == EXEC_FD + 1    \* a path naming the descriptor after it
PATH_FD       == 3    \* the descriptor named by b"/proc/self/fd/3\0"
UMH_NO_WAIT   == 0    \* include/linux/umh.h wait modes
UMH_WAIT_EXEC == 1
UMH_WAIT_PROC == 2

Fds == 0 .. (EXEC_FD + 1)        \* the part of a descriptor table watched

NoOne     == << "free", 0 >>     \* the mutex is free
Writer(t) == << "writer", t >>   \* write_iter of thread t holds the mutex
Closer    == << "closer", 0 >>   \* release() holds the mutex
NoFile  == 0                     \* an empty descriptor slot, a null pointer
ERR_PTR == -1                    \* an error-encoded pointer (IS_ERR)
ErrRets == { -28 }               \* negative results of kernel_write
ExecErrs == { -16 }              \* call_usermodehelper_exec refusing a request
ExecveErrs == { -8 }             \* the child's exec failing
ExitStatuses == { 0, 256 }       \* wait statuses of a helper that ran
NullInfo == [null |-> TRUE, path |-> 0, argv |-> <<>>, envp |-> <<>>,
             init |-> "none", data |-> NoFile]

Ok(n)  == [ok |-> TRUE,  val |-> n, err |-> "none"]
Err(e) == [ok |-> FALSE, val |-> 0, err |-> e]

VARIABLES
    sstate,     \* sstate[s]: "Closed", "Open", "Closing", "Terminated"
    buffer,     \* buffer[s]: DevExecDevice.data, the KVVec<u8>
    lock,       \* lock[s]: holder of the Mutex: NoOne, Writer(t) or Closer
    wpc,        \* wpc[s][t]: position of thread t in write_iter
    winput,     \* winput[s][t]: the iov of the write_iter call in progress
    wdone,      \* wdone[s][t]: bytes of the iov copied so far
    wpre,       \* wpre[s][t]: the vector as the call found it under the mutex
    nWrites,    \* write_iter calls made so far (bounded by MaxWrites)
    wlog,       \* wlog[s]: finished write_iter calls, in order: the iov, the
                \* result, and the vector before and after the call
    rpc,        \* rpc[s]: position of release()
    taken,      \* taken[s]: release()'s local `buffer`
    memFile,    \* memFile[s]: release()'s local `mem_file_ptr`
    kwRet,      \* kwRet[s]: release()'s local `ret` of kernel_write
    subInfo,    \* subInfo[s]: release()'s local `sub_info`
    outcome,    \* outcome[s]: how release() ended
    trace,      \* trace[s]: the calls release() and its helper made, in order
    imgCount,   \* shmem files created so far
    imgData,    \* imgData[i]: contents of shmem file i
    imgRefs,    \* imgRefs[i]: reference count of shmem file i
    child,      \* child[s]: state of the helper process of session s
    childFds,   \* childFds[s]: descriptor table of the helper
    childProg,  \* childProg[s]: the program image the helper runs
    initRet,    \* initRet[s]: value returned by kmod_devexec_init
    umhRet      \* umhRet[s]: release()'s local `ret` of
                \* call_usermodehelper_exec (the request's retval)

vars == << sstate, buffer, lock, wpc, winput, wdone, wpre, nWrites, wlog, rpc, taken,
           memFile, kwRet, subInfo, outcome, trace, imgCount, imgData,
           imgRefs, child, childFds, childProg, initRet, umhRet >>

wvars == << wpc, winput, wdone, wpre, nWrites, wlog >>
rvars == << rpc, taken, memFile, kwRet, subInfo, outcome, trace >>
ivars == << imgCount, imgData, imgRefs >>
cvars == << child, childFds, childProg, initRet, umhRet >>

(***************************************************************************)
(* Helpers on sequences.                                                   *)
(***************************************************************************)
Prefix(q, n) == SubSeq(q, 1, n)

IsPrefix(p, q) == Len(p) <= Len(q) /\ Prefix(q, Len(p)) = p

RECURSIVE Flatten(_)
Flatten(qs) == IF qs = <<>> THEN <<>> ELSE Head(qs) \o Flatten(Tail(qs))

RECURSIVE SumLen(_)
SumLen(qs) == IF qs = <<>> THEN 0 ELSE Len(Head(qs)) + SumLen(Tail(qs))

Count(q, e) == Cardinality({ i \in 1 .. Len(q) : q[i] = e })

Has(q, e) == \E i \in 1 .. Len(q) : q[i] = e

Pos(q, e) == CHOOSE i \in 1 .. Len(q) : q[i] = e

\* the inputs of the writes that returned Ok, in order
OkInputs(log) == [ i \in 1 .. Len(SelectSeq(log, LAMBDA w : w.res.ok))
                     |-> SelectSeq(log, LAMBDA w : w.res.ok)[i].inp ]

(***************************************************************************)
(* Init: no session is open, no shmem file exists.                         *)
(***************************************************************************)
Init ==
    /\ sstate    = [s \in Sessions |-> "Closed"]
    /\ buffer    = [s \in Sessions |-> <<>>]
    /\ lock      = [s \in Sessions |-> NoOne]
    /\ wpc       = [s \in Sessions |-> [t \in Threads |-> "idle"]]
    /\ winput    = [s \in Sessions |-> [t \in Threads |-> <<>>]]
    /\ wdone     = [s \in Sessions |-> [t \in Threads |-> 0]]
    /\ wpre      = [s \in Sessions |-> [t \in Threads |-> <<>>]]
    /\ nWrites   = 0
    /\ wlog      = [s \in Sessions |-> <<>>]
    /\ rpc       = [s \in Sessions |-> "none"]
    /\ taken     = [s \in Sessions |-> <<>>]
    /\ memFile   = [s \in Sessions |-> NoFile]
    /\ kwRet     = [s \in Sessions |-> 0]
    /\ subInfo   = [s \in Sessions |-> NullInfo]
    /\ outcome   = [s \in Sessions |-> "none"]
    /\ trace     = [s \in Sessions |-> <<>>]
    /\ imgCount  = 0
    /\ imgData   = [i \in Images |-> <<>>]
    /\ imgRefs   = [i \in Images |-> 0]
    /\ child     = [s \in Sessions |-> "none"]
    /\ childFds  = [s \in Sessions |-> [f \in Fds |-> NoFile]]
    /\ childProg = [s \in Sessions |-> <<>>]
    /\ initRet   = [s \in Sessions |-> -1]
    /\ umhRet    = [s \in Sessions |-> 0]

\* an open that empties the one buffer all instances would share
FreshBuffersAll(buf, s) == [r \in Sessions |-> << >>]

\* `buffer <- new_mutex!(KVec::new())`: the new instance gets a buffer of its
\* own, empty; the buffers of the other instances are not touched
FreshBuffers(buf, s) == [buf EXCEPT ![s] = << >>]

(***************************************************************************)
(* open(): allocates the DevExecDevice with an empty buffer and a free     *)
(* mutex.  A failed allocation creates no session and leaves no state.     *)
(***************************************************************************)
Open(s) ==
    /\ sstate[s] = "Closed"
    /\ sstate' = [sstate EXCEPT ![s] = "Open"]
    /\ buffer' = FreshBuffers(buffer, s)
    /\ lock'   = [lock EXCEPT ![s] = NoOne]
    /\ UNCHANGED << wvars, rvars, ivars, cvars >>

\* a mutex that lets everyone in
MutexFreeAlways(s) == TRUE

\* Mutex::lock() returns only when no one holds the mutex
MutexFree(s) == lock[s] = NoOne

(***************************************************************************)
(* write_iter(): `file.data.lock()` blocks until the mutex is free.        *)
(***************************************************************************)
WriteLock(s, t, p) ==
    /\ sstate[s] = "Open"
    /\ wpc[s][t] = "idle"
    /\ nWrites < MaxWrites
    /\ MutexFree(s)
    /\ lock'    = [lock EXCEPT ![s] = Writer(t)]
    /\ wpc'     = [wpc EXCEPT ![s][t] = "copy"]
    /\ winput'  = [winput EXCEPT ![s][t] = p]
    /\ wdone'   = [wdone EXCEPT ![s][t] = 0]
    /\ wpre'    = [wpre EXCEPT ![s][t] = buffer[s]]
    /\ nWrites' = nWrites + 1
    /\ UNCHANGED << sstate, buffer, wlog, rvars, ivars, cvars >>

\* a copy that replaces the vector's contents instead of extending them
CopyFromIterVecOverwrite(buf, p) == p

\* copy_from_iter_vec on success: the iov's bytes are appended to the vector
CopyFromIterVec(buf, p) == buf \o p

\* Ok(len): the number of bytes copy_from_iter_vec reports
WriteResult(n) == Ok(n)

\* the part of the iov that one step of the copy moves: its next byte
NextChunk(p, n) == IF n < Len(p) THEN << p[n + 1] >> ELSE << >>

\* write_iter returns: the guard is dropped, the result goes to the caller
WriteReturns(s, t, res, post) ==
    /\ wlog'   = [wlog EXCEPT ![s] = Append(@,
                    [inp |-> winput[s][t], res |-> res,
                     pre |-> wpre[s][t], post |-> post])]
    /\ lock'   = [lock EXCEPT ![s] = NoOne]
    /\ wpc'    = [wpc EXCEPT ![s][t] = "idle"]
    /\ winput' = [winput EXCEPT ![s][t] = << >>]
    /\ wdone'  = [wdone EXCEPT ![s][t] = 0]
    /\ wpre'   = [wpre EXCEPT ![s][t] = << >>]

(***************************************************************************)
(* write_iter(), under the mutex: copy_from_iter_vec either fails to       *)
(* reserve room before it copies anything (the `?` returns ENOMEM with the *)
(* vector untouched) or appends the iov, a byte a step; with the last byte *)
(* write_iter returns and the guard is dropped.                            *)
(***************************************************************************)
WriteCopy(s, t) ==
    /\ wpc[s][t] = "copy"
    /\ \/ /\ wdone[s][t] = 0
          /\ buffer' = buffer
          /\ WriteReturns(s, t, Err("ENOMEM"), buffer[s])
       \/ LET chunk == NextChunk(winput[s][t], wdone[s][t])
              done  == wdone[s][t] + Len(chunk)
              vec   == CopyFromIterVec(buffer[s], chunk)
          IN  /\ buffer' = [buffer EXCEPT ![s] = vec]
              /\ IF done = Len(winput[s][t])
                 THEN WriteReturns(s, t, WriteResult(done), vec)
                 ELSE /\ wdone' = [wdone EXCEPT ![s][t] = done]
                      /\ UNCHANGED << lock, wpc, winput, wpre, wlog >>
    /\ UNCHANGED << sstate, nWrites, rvars, ivars, cvars >>

(***************************************************************************)
(* release(): pieces of the function that the actions below put together.  *)
(***************************************************************************)
\* core::mem::take leaves Default::default() in the device's vector
TakeResidue(buf) == <<>>

\* a guard bound to a local, so held until release() returns
LockAfterTakeHeld == Closer

\* the MutexGuard is a temporary of the `let buffer = ...;` statement
LockAfterTake == NoOne

\* the empty check left out
IsEmptyNever(buf) == FALSE

\* `if buffer.is_empty()`
IsEmpty(buf) == Len(buf) = 0

\* the file a successful shmem_file_setup creates for release() of s: a new
\* one on every call, and release() runs once per session
NewFile(s) == s

\* the IS_ERR check left out
IsErrNever(ptr) == FALSE

\* `IS_ERR(mem_file_ptr)`
IsErr(ptr) == ptr = ERR_PTR

\* `sub_info.is_null()`
IsNull(info) == info.null

\* the check of kernel_write's result left out
WriteErrNever(ret) == FALSE

\* `if ret < 0` after kernel_write
WriteErr(ret) == ret < 0

\* the write-failure branch returning without fput
WriteFailCleanupNone == << >>

\* what release() does with the shmem file when kernel_write failed
WriteFailCleanup == << "fput" >>

\* the null-request branch returning without fput
SetupFailCleanupNone == << >>

\* what release() does with the shmem file when sub_info is null
SetupFailCleanup == << "fput" >>

\* an fput added after call_usermodehelper_exec
ExecCleanupFput == << "fput" >>

\* what release() does with the shmem file after call_usermodehelper_exec
ExecCleanup == << >>

\* waiting for the exec only
WaitModeExec == UMH_WAIT_EXEC

\* the wait flag handed to call_usermodehelper_exec
WaitMode == UMH_WAIT_PROC

\* the request built by call_usermodehelper_setup
SubInfo(s) == [null |-> FALSE, path |-> PATH_FD, argv |-> << PATH_FD >>,
               envp |-> << >>, init |-> "kmod_devexec_init",
               data |-> memFile[s]]

\* the file installed one slot too high
InitInstallNextSlot(fds, data) == [fds EXCEPT ![EXEC_FD + 1] = data]

\* kmod_devexec_init: fd_install(EXEC_FD, (*info).data)
InitInstall(fds, data) == [fds EXCEPT ![EXEC_FD] = data]

\* kmod_devexec_init's return value
InitReturn == 0

\* fput called once for every "fput" of a cleanup
RefsAfter(refs, i, evs) ==
    [j \in Images |-> IF j = i THEN refs[j] - Count(evs, "fput") ELSE refs[j]]

\* what kernel_write can hand back for n bytes: an error, or a count that
\* is positive (and may be short) when n is
KernelWriteRets(n) == ErrRets \cup (IF n = 0 THEN { 0 } ELSE 1 .. n)

\* the file's contents after kernel_write handed back ret
DataAfter(data, i, buf, ret) ==
    [j \in Images |-> IF j = i /\ ret >= 0 THEN Prefix(buf, ret) ELSE data[j]]

\* closing a descriptor table drops one reference per installed file
RefsAfterClose(refs, fds) ==
    [i \in Images |-> refs[i] - Cardinality({ f \in Fds : fds[f] = i })]

\* a close that hands the helper's failure on to its caller
ReleaseResultStatus(oc, ret) == IF ret = 0 THEN "unit" ELSE "error"

\* what release() hands back to the device framework: `fn release(..)` has
\* no return value
ReleaseResult(oc, ret) == "unit"

\* a return that leaks the device instead of dropping it
FinishKeepsDevice(s, oc, evs) ==
    /\ rpc'     = [rpc EXCEPT ![s] = "done"]
    /\ outcome' = [outcome EXCEPT ![s] = oc]
    /\ trace'   = [trace EXCEPT ![s] = @ \o evs \o << "return" >>]
    /\ sstate'  = sstate

\* release() returns: the device (Pin<KBox<Self>>) is dropped with it
Finish(s, oc, evs) ==
    /\ rpc'     = [rpc EXCEPT ![s] = "done"]
    /\ outcome' = [outcome EXCEPT ![s] = oc]
    /\ trace'   = [trace EXCEPT ![s] = @ \o evs \o << "return" >>]
    /\ sstate'  = [sstate EXCEPT ![s] = "Terminated"]

(***************************************************************************)
(* release(): `device.data.lock()`.  release() owns the device, so no      *)
(* write_iter is in progress on it.                                        *)
(***************************************************************************)
ReleaseLock(s) ==
    /\ sstate[s] = "Open"
    /\ \A t \in Threads : wpc[s][t] = "idle"
    /\ MutexFree(s)
    /\ lock'   = [lock EXCEPT ![s] = Closer]
    /\ sstate' = [sstate EXCEPT ![s] = "Closing"]
    /\ rpc'    = [rpc EXCEPT ![s] = "take"]
    /\ trace'  = [trace EXCEPT ![s] = << "lock" >>]
    /\ UNCHANGED << buffer, wvars, taken, memFile, kwRet, subInfo, outcome,
                    ivars, cvars >>

(***************************************************************************)
(* release(): core::mem::take under the guard, then the is_empty check.    *)
(***************************************************************************)
ReleaseTake(s) ==
    /\ rpc[s] = "take"
    /\ lock[s] = Closer
    /\ taken'  = [taken EXCEPT ![s] = buffer[s]]
    /\ buffer' = [buffer EXCEPT ![s] = TakeResidue(buffer[s])]
    /\ lock'   = [lock EXCEPT ![s] = LockAfterTake]
    /\ IF IsEmpty(buffer[s])
       THEN Finish(s, "Empty", << "take" >>)
       ELSE /\ rpc'   = [rpc EXCEPT ![s] = "create"]
            /\ trace' = [trace EXCEPT ![s] = Append(@, "take")]
            /\ UNCHANGED << sstate, outcome >>
    /\ UNCHANGED << wvars, memFile, kwRet, subInfo, ivars, cvars >>

(***************************************************************************)
(* release(): shmem_file_setup, which hands back an error pointer or a     *)
(* new, empty file holding one reference; then the IS_ERR check.           *)
(***************************************************************************)
ShmemFileSetup(s) ==
    /\ rpc[s] = "create"
    /\ \E ptr \in { ERR_PTR, NewFile(s) } :
         /\ memFile' = [memFile EXCEPT ![s] = ptr]
         /\ IF ptr = ERR_PTR
            THEN UNCHANGED ivars
            ELSE /\ imgCount' = imgCount + 1
                 /\ imgData'  = [imgData EXCEPT ![ptr] = << >>]
                 /\ imgRefs'  = [imgRefs EXCEPT ![ptr] = 1]
         /\ IF IsErr(ptr)
            THEN Finish(s, "CreateFailed", << "shmem_file_setup" >>)
            ELSE /\ rpc'   = [rpc EXCEPT ![s] = "write"]
                 /\ trace' = [trace EXCEPT ![s] =
                                 Append(@, "shmem_file_setup")]
                 /\ UNCHANGED << sstate, outcome >>
    /\ UNCHANGED << buffer, lock, wvars, taken, kwRet, subInfo, cvars >>

(***************************************************************************)
(* release(): kernel_write of the whole buffer at offset 0.  It hands back *)
(* a negative error code, or the number of bytes it wrote, which may be    *)
(* fewer than asked for; then the `ret < 0` check.                         *)
(***************************************************************************)
KernelWrite(s) ==
    /\ rpc[s] = "write"
    /\ \E ret \in KernelWriteRets(Len(taken[s])) :
         /\ kwRet'   = [kwRet EXCEPT ![s] = ret]
         /\ imgData' = DataAfter(imgData, memFile[s], taken[s], ret)
         /\ IF WriteErr(ret)
            THEN /\ imgRefs' = RefsAfter(imgRefs, memFile[s], WriteFailCleanup)
                 /\ Finish(s, "WriteFailed",
                           << "kernel_write" >> \o WriteFailCleanup)
            ELSE /\ imgRefs' = imgRefs
                 /\ rpc'     = [rpc EXCEPT ![s] = "setup"]
                 /\ trace'   = [trace EXCEPT ![s] = Append(@, "kernel_write")]
                 /\ UNCHANGED << sstate, outcome >>
    /\ UNCHANGED << buffer, lock, wvars, taken, memFile, subInfo, imgCount,
                    cvars >>

(***************************************************************************)
(* release(): call_usermodehelper_setup, which hands back null or the      *)
(* request; then the is_null check.                                        *)
(***************************************************************************)
UsermodehelperSetup(s) ==
    /\ rpc[s] = "setup"
    /\ \E info \in { NullInfo, SubInfo(s) } :
         /\ subInfo' = [subInfo EXCEPT ![s] = info]
         /\ IF IsNull(info)
            THEN /\ imgRefs' = RefsAfter(imgRefs, memFile[s], SetupFailCleanup)
                 /\ Finish(s, "LaunchPrepFailed",
                           << "call_usermodehelper_setup" >>
                               \o SetupFailCleanup)
            ELSE /\ imgRefs' = imgRefs
                 /\ rpc'     = [rpc EXCEPT ![s] = "exec"]
                 /\ trace'   = [trace EXCEPT ![s] =
                                   Append(@, "call_usermodehelper_setup")]
                 /\ UNCHANGED << sstate, outcome >>
    /\ UNCHANGED << buffer, lock, wvars, taken, memFile, kwRet, imgCount,
                    imgData, cvars >>

(***************************************************************************)
(* release(): call_usermodehelper_exec.  The kernel either refuses the     *)
(* request (helpers disabled, the fork fails) and returns an error with no *)
(* child set up, or forks the child and, by the wait flag, waits for it.   *)
(***************************************************************************)
UsermodehelperExec(s) ==
    /\ rpc[s] = "exec"
    /\ \/ /\ imgRefs' = RefsAfter(imgRefs, memFile[s], ExecCleanup)
          /\ Finish(s, "ExecFailed",
                    << "call_usermodehelper_exec" >> \o ExecCleanup)
          /\ child' = child
          /\ \E e \in ExecErrs : umhRet' = [umhRet EXCEPT ![s] = e]
       \/ /\ imgRefs' = imgRefs
          /\ child'   = [child EXCEPT ![s] = "setup"]
          /\ umhRet'  = umhRet
          /\ rpc'     = [rpc EXCEPT ![s] = "wait"]
          /\ trace'   = [trace EXCEPT ![s] =
                            @ \o << "call_usermodehelper_exec", "fork" >>]
          /\ UNCHANGED << sstate, outcome >>
    /\ UNCHANGED << buffer, lock, wvars, taken, memFile, kwRet, subInfo,
                    imgCount, imgData, childFds, childProg, initRet >>

\* the child leaves: its descriptor table is closed
ChildExits(s, fds, evs, st) ==
    /\ child'    = [child EXCEPT ![s] = "exited"]
    /\ umhRet'   = [umhRet EXCEPT ![s] = st]
    /\ childFds' = [childFds EXCEPT ![s] = [f \in Fds |-> NoFile]]
    /\ imgRefs'  = RefsAfterClose(imgRefs, fds)
    /\ trace'    = [trace EXCEPT ![s] = @ \o evs \o << "exit" >>]

(***************************************************************************)
(* The child, before its program is replaced: the kernel calls sub_info's  *)
(* init, kmod_devexec_init, with the request; a non-zero result ends the   *)
(* child.                                                                  *)
(***************************************************************************)
KmodDevexecInit(s) ==
    /\ child[s] = "setup"
    /\ initRet' = [initRet EXCEPT ![s] = InitReturn]
    /\ IF InitReturn = 0
       THEN /\ childFds' = [childFds EXCEPT ![s] =
                               InitInstall(@, subInfo[s].data)]
            /\ child'    = [child EXCEPT ![s] = "preexec"]
            /\ trace'    = [trace EXCEPT ![s] =
                               @ \o << "kmod_devexec_init", "fd_install" >>]
            /\ imgRefs'  = imgRefs
            /\ umhRet'   = umhRet
       ELSE ChildExits(s, InitInstall(childFds[s], subInfo[s].data),
                       << "kmod_devexec_init", "fd_install" >>, InitReturn)
    /\ UNCHANGED << sstate, buffer, lock, wvars, rpc, taken, memFile, kwRet,
                    subInfo, outcome, imgCount, imgData, childProg >>

(***************************************************************************)
(* The child: kernel_execve of sub_info's path, /proc/self/fd/PATH_FD,     *)
(* which resolves to the file at that descriptor of the child.  It fails   *)
(* when the slot is empty, and may fail on the file's contents.            *)
(***************************************************************************)
KernelExecve(s) ==
    /\ child[s] = "preexec"
    /\ \/ /\ childFds[s][subInfo[s].path] # NoFile
          /\ childProg' = [childProg EXCEPT ![s] =
                              imgData[childFds[s][subInfo[s].path]]]
          /\ child'     = [child EXCEPT ![s] = "running"]
          /\ trace'     = [trace EXCEPT ![s] = Append(@, "execve")]
          /\ UNCHANGED << childFds, imgRefs, umhRet >>
       \/ /\ \E e \in ExecveErrs :
               ChildExits(s, childFds[s], << "execve_failed" >>, e)
          /\ childProg' = childProg
    /\ UNCHANGED << sstate, buffer, lock, wvars, rpc, taken, memFile, kwRet,
                    subInfo, outcome, imgCount, imgData, initRet >>

(***************************************************************************)
(* The helper program ends.                                                *)
(***************************************************************************)
HelperExit(s) ==
    /\ child[s] = "running"
    /\ \E st \in ExitStatuses : ChildExits(s, childFds[s], << >>, st)
    /\ UNCHANGED << sstate, buffer, lock, wvars, rpc, taken, memFile, kwRet,
                    subInfo, outcome, imgCount, imgData, childProg, initRet >>

\* what call_usermodehelper_exec waits for, by its wait flag
WaitOver(s, mode) ==
    CASE mode = UMH_WAIT_PROC -> child[s] = "exited"
      [] mode = UMH_WAIT_EXEC -> child[s] \in { "running", "exited" }
      [] OTHER                -> TRUE

(***************************************************************************)
(* release(): call_usermodehelper_exec returns, the result is logged and   *)
(* release() returns.                                                      *)
(***************************************************************************)
ReleaseReturn(s) ==
    /\ rpc[s] = "wait"
    /\ WaitOver(s, WaitMode)
    /\ imgRefs' = RefsAfter(imgRefs, memFile[s], ExecCleanup)
    /\ Finish(s, "Executed", << "wait_over" >> \o ExecCleanup)
    /\ UNCHANGED << buffer, lock, wvars, taken, memFile, kwRet, subInfo,
                    imgCount, imgData, cvars >>

Next ==
    \/ \E s \in Sessions : Open(s)
    \/ \E s \in Sessions, t \in Threads, p \in Payloads : WriteLock(s, t, p)
    \/ \E s \in Sessions, t \in Threads : WriteCopy(s, t)
    \/ \E s \in Sessions : ReleaseLock(s)
    \/ \E s \in Sessions : ReleaseTake(s)
    \/ \E s \in Sessions : ShmemFileSetup(s)
    \/ \E s \in Sessions : KernelWrite(s)
    \/ \E s \in Sessions : UsermodehelperSetup(s)
    \/ \E s \in Sessions : UsermodehelperExec(s)
    \/ \E s \in Sessions : KmodDevexecInit(s)
    \/ \E s \in Sessions : KernelExecve(s)
    \/ \E s \in Sessions : HelperExit(s)
    \/ \E s \in Sessions : ReleaseReturn(s)

Spec == Init /\ [][Next]_vars

\* the steps of release() of s after it has the mutex
ReleaseStep(s) ==
    \/ ReleaseTake(s)
    \/ ShmemFileSetup(s)
    \/ KernelWrite(s)
    \/ UsermodehelperSetup(s)
    \/ UsermodehelperExec(s)
    \/ ReleaseReturn(s)

\* the steps of the helper process of s
HelperStep(s) == KmodDevexecInit(s) \/ KernelExecve(s) \/ HelperExit(s)

(***************************************************************************)
(* The thread running release() keeps being scheduled and the kernel calls *)
(* it makes return; a launched helper keeps running until it ends.         *)
(***************************************************************************)
FairSpec ==
    /\ Spec
    /\ \A s \in Sessions : WF_vars(ReleaseStep(s)) /\ WF_vars(HelperStep(s))

(***************************************************************************)
(* Properties.                                                             *)
(***************************************************************************)
\* fput calls release() itself made on its shmem file
ParentFputs(s) == Count(trace[s], "fput")

\* release() of s created a shmem file
HasImage(s) == memFile[s] \in Images

\* release() of s has moved the buffer out
TookBuffer(s) == rpc[s] \notin { "none", "take" }

\* the threads inside write_iter's critical section on s
InCopy(s) == { t \in Threads : wpc[s][t] = "copy" }

\* C1: every successful write returns its input length and extends the
\* buffer by exactly its input, the earlier contents staying in front; the
\* buffer that release() takes has the summed length of the successful
\* writes.
C1_WritesAccumulate ==
    \A s \in Sessions :
      /\ \A i \in 1 .. Len(wlog[s]) :
           LET w == wlog[s][i] IN
             /\ w.pre = (IF i = 1 THEN << >> ELSE wlog[s][i - 1].post)
             /\ w.res.ok =>
                  /\ w.res.val = Len(w.inp)
                  /\ Len(w.post) = Len(w.pre) + Len(w.inp)
                  /\ IsPrefix(w.pre, w.post)
                  /\ SubSeq(w.post, Len(w.pre) + 1, Len(w.post)) = w.inp
      /\ (~TookBuffer(s) /\ InCopy(s) = { }) =>
           /\ buffer[s] = Flatten(OkInputs(wlog[s]))
           /\ Len(buffer[s]) = SumLen(OkInputs(wlog[s]))
      /\ TookBuffer(s) => Len(taken[s]) = SumLen(OkInputs(wlog[s]))

C1_Witness ==
    \E s \in Sessions :
      /\ rpc[s] = "take"
      /\ Len(OkInputs(wlog[s])) = 2
      /\ Len(buffer[s]) = 3

\* C2: whenever release() goes on after kernel_write did not report an
\* error, the shmem file handed to the launch, installed in the child and
\* run by the helper holds exactly the bytes taken at close, which are the
\* successful writes' payloads in call order.
C2_ImageHoldsBuffer ==
    \A s \in Sessions :
      /\ (rpc[s] \in { "setup", "exec" } \/ child[s] \in { "setup", "preexec" })
           => /\ imgData[memFile[s]] = taken[s]
              /\ taken[s] = Flatten(OkInputs(wlog[s]))
      /\ child[s] = "running" => childProg[s] = taken[s]

\* release() of s went all the way: the whole buffer was written, the
\* helper was launched and its program replaced, and release() returned
FullSuccess(s) ==
    /\ outcome[s] = "Executed"
    /\ kwRet[s] = Len(taken[s])
    /\ Has(trace[s], "execve")

C4_WriteFailureReleases ==
    \A s \in Sessions :
      (Has(trace[s], "kernel_write") /\ kwRet[s] < 0) =>
        /\ rpc[s] = "done" /\ outcome[s] = "WriteFailed"
        /\ ParentFputs(s) = 1
        /\ imgRefs[memFile[s]] = 0
        /\ ~Has(trace[s], "call_usermodehelper_setup")
        /\ ~Has(trace[s], "call_usermodehelper_exec")
        /\ ~Has(trace[s], "kmod_devexec_init")
        /\ child[s] = "none"

C4_Witness ==
    \E s \in Sessions :
      /\ outcome[s] = "WriteFailed"
      /\ kwRet[s] < 0
      /\ Len(taken[s]) = 3

\* C5: when call_usermodehelper_setup hands back null, release() releases
\* the shmem file exactly once before it returns, and the helper is never
\* executed and the callback never runs.
C5_SetupFailureReleases ==
    \A s \in Sessions :
      (Has(trace[s], "call_usermodehelper_setup") /\ subInfo[s].null) =>
        /\ rpc[s] = "done" /\ outcome[s] = "LaunchPrepFailed"
        /\ ParentFputs(s) = 1
        /\ imgRefs[memFile[s]] = 0
        /\ ~Has(trace[s], "call_usermodehelper_exec")
        /\ ~Has(trace[s], "kmod_devexec_init")
        /\ child[s] = "none"

C5_Witness ==
    \E s \in Sessions :
      /\ outcome[s] = "LaunchPrepFailed"
      /\ subInfo[s].null
      /\ imgData[memFile[s]] = taken[s]

\* C6: when shmem_file_setup fails, release() makes no kernel_write, no
\* launch preparation, no launch and no fput, no descriptor is installed,
\* and no shmem file exists on its account.
C6_CreateFailureStops ==
    /\ \A s \in Sessions :
         memFile[s] = ERR_PTR =>
           /\ rpc[s] = "done" /\ outcome[s] = "CreateFailed"
           /\ ~Has(trace[s], "kernel_write")
           /\ ~Has(trace[s], "call_usermodehelper_setup")
           /\ ~Has(trace[s], "call_usermodehelper_exec")
           /\ ~Has(trace[s], "fput")
           /\ ~Has(trace[s], "fd_install")
           /\ child[s] = "none"
           /\ \A f \in Fds : childFds[s][f] = NoFile
    /\ imgCount = Cardinality({ s \in Sessions : HasImage(s) })
    /\ \A i \in Images :
         (imgRefs[i] # 0 \/ imgData[i] # << >>) =>
           \E s \in Sessions : memFile[s] = i

C6_Witness ==
    \E s \in Sessions :
      /\ outcome[s] = "CreateFailed"
      /\ memFile[s] = ERR_PTR
      /\ taken[s] # << >>

\* C7: when the buffer taken at close is empty, no shmem file is created,
\* nothing is prepared or launched, and release() ends right after the take.
C7_EmptyBufferStops ==
    \A s \in Sessions :
      (TookBuffer(s) /\ taken[s] = << >>) =>
        /\ rpc[s] = "done" /\ outcome[s] = "Empty"
        /\ trace[s] = << "lock", "take", "return" >>
        /\ memFile[s] = NoFile
        /\ subInfo[s].null
        /\ child[s] = "none"

C7_Witness ==
    \E s \in Sessions :
      /\ outcome[s] = "Empty"
      /\ Len(wlog[s]) = 2
      /\ \A i \in 1 .. Len(wlog[s]) : wlog[s][i].res.ok

\* C8: release() acquires the mutex exactly once, moves the buffer out
\* exactly once, leaving the device's buffer empty, on every outcome, and
\* has dropped the mutex before it creates the shmem file, so that the mutex
\* is free while it waits for the helper.
C8_TakeOnceUnderLock ==
    \A s \in Sessions :
      /\ rpc[s] # "none" => Count(trace[s], "lock") = 1
      /\ rpc[s] = "take" => lock[s] = Closer /\ ~Has(trace[s], "take")
      /\ TookBuffer(s) =>
           /\ Count(trace[s], "take") = 1
           /\ trace[s][1] = "lock" /\ trace[s][2] = "take"
           /\ buffer[s] = << >>
           /\ lock[s] = NoOne

C8_Witness ==
    \E s \in Sessions :
      /\ rpc[s] = "wait"
      /\ child[s] = "running"
      /\ taken[s] # << >>
      /\ lock[s] = NoOne

\* C9: release() launches at most one helper, and when it returns after
\* launching one, exactly one was launched and that helper has ended.
C9_ReturnsAfterHelperEnds ==
    \A s \in Sessions :
      /\ Count(trace[s], "call_usermodehelper_exec") <= 1
      /\ Count(trace[s], "fork") <= 1
      /\ child[s] # "none" <=> Has(trace[s], "fork")
      /\ (rpc[s] = "done" /\ child[s] # "none") =>
           /\ outcome[s] = "Executed"
           /\ Count(trace[s], "fork") = 1
           /\ child[s] = "exited"

C9_Witness ==
    \E s \in Sessions :
      /\ rpc[s] = "done"
      /\ outcome[s] = "Executed"
      /\ child[s] = "exited"
      /\ childProg[s] # << >>

\* C10: in every helper that reaches its setup, kmod_devexec_init runs
\* exactly once and before the program is replaced, puts the shmem file of
\* this release() at descriptor 3 and nowhere else, and returns 0.
C10_CallbackInstallsAtThree ==
    \A s \in Sessions :
      /\ Count(trace[s], "kmod_devexec_init") <= 1
      /\ child[s] \in { "none", "setup" } =>
           /\ ~Has(trace[s], "kmod_devexec_init")
           /\ \A f \in Fds : childFds[s][f] = NoFile
      /\ child[s] \in { "preexec", "running", "exited" } =>
           /\ Count(trace[s], "kmod_devexec_init") = 1
           /\ initRet[s] = 0
      /\ child[s] \in { "preexec", "running" } =>
           /\ HasImage(s)
           /\ \A f \in Fds :
                childFds[s][f] = (IF f = 3 THEN memFile[s] ELSE NoFile)
           /\ \A r \in Sessions \ { s } : memFile[r] # memFile[s]
      /\ \A i \in 1 .. Len(trace[s]) :
           trace[s][i] \in { "execve", "execve_failed" } =>
             \E j \in 1 .. (i - 1) : trace[s][j] = "fd_install"

C10_Witness ==
    \E s \in Sessions :
      /\ child[s] = "preexec"
      /\ childFds[s][3] = memFile[s]
      /\ \E r \in Sessions \ { s } : child[r] = "running"

\* the calls release() itself makes
ReleaseCalls == { "lock", "take", "shmem_file_setup", "kernel_write", "fput",
                  "call_usermodehelper_setup", "call_usermodehelper_exec",
                  "return" }

\* C11: release() makes every call of its sequence at most once, so there
\* is at most one launch attempt and no retry; whatever the outcome and the
\* helper's status, the caller of close gets the same result, no error, and
\* the session ends Terminated.
C11_NoRetryNoErrorToCaller ==
    \A s \in Sessions :
      /\ \A ev \in ReleaseCalls \cup { "fork" } : Count(trace[s], ev) <= 1
      /\ rpc[s] = "done" =>
           /\ ReleaseResult(outcome[s], umhRet[s]) = "unit"
           /\ sstate[s] = "Terminated"
           /\ trace[s][Len(trace[s])] = "return"

C11_Witness ==
    \E s \in Sessions :
      /\ rpc[s] = "done"
      /\ outcome[s] = "Executed"
      /\ umhRet[s] = 256
      /\ \E r \in Sessions :
           rpc[r] = "done" /\ outcome[r] = "Executed" /\ umhRet[r] = 0

\* C13: when call_usermodehelper_exec fails before the callback ever runs,
\* release() has released the shmem file when it returns: no file stays
\* referenced that is neither released nor installed in a process.
C13_LaunchFailureReleases ==
    \A s \in Sessions :
      (rpc[s] = "done" /\ HasImage(s) /\ Has(trace[s], "call_usermodehelper_exec")
         /\ ~Has(trace[s], "kmod_devexec_init"))
        => imgRefs[memFile[s]] = 0

\* C12: every release() reaches Terminated, with the device dropped,
\* whatever its outcome, given that a launched helper ends; a closing
\* session never goes back to Open and a terminated one stays terminated.
C12_ReleaseTerminates ==
    /\ \A s \in Sessions :
         (sstate[s] = "Closing") ~> (sstate[s] = "Terminated" /\ rpc[s] = "done")
    /\ [][\A s \in Sessions :
            /\ sstate[s] = "Closing" => sstate'[s] \in { "Closing", "Terminated" }
            /\ sstate[s] = "Terminated" => sstate'[s] = "Terminated"
            /\ rpc'[s] = "done" => sstate'[s] = "Terminated"]_vars

C12_Witness ==
    /\ \A s \in Sessions : sstate[s] = "Terminated"
    /\ { outcome[s] : s \in Sessions } = { "Executed", "WriteFailed" }

\* the calls of release() up to and including call_usermodehelper_setup
UpToSetup == << "lock", "take", "shmem_file_setup", "kernel_write",
                "call_usermodehelper_setup" >>

\* the five paths of release(), as the calls release() itself makes
PathEmpty == << "lock", "take", "return" >>
PathCreateFailed == << "lock", "take", "shmem_file_setup", "return" >>
PathWriteFailed == << "lock", "take", "shmem_file_setup", "kernel_write",
                      "fput", "return" >>
PathLaunchPrepFailed == UpToSetup \o << "fput", "return" >>
PathExecuted == UpToSetup \o << "call_usermodehelper_exec", "return" >>
FivePaths == { PathEmpty, PathCreateFailed, PathWriteFailed,
               PathLaunchPrepFailed, PathExecuted }

\* what happens inside call_usermodehelper_exec, in order: the child is set
\* up, the callback installs the descriptor, the helper executes and ends,
\* the wait is over; or the child's exec fails after the callback; or the
\* call is refused before a child exists
LaunchRan == << "fork", "kmod_devexec_init", "fd_install", "execve",
                "exit", "wait_over" >>
LaunchExecveFailed == << "fork", "kmod_devexec_init", "fd_install",
                         "execve_failed", "exit", "wait_over" >>
LaunchRefused == << >>
Launches == { LaunchRan, LaunchExecveFailed, LaunchRefused }

\* the calls of release() in a trace, and the events of the launch in it
CallsIn(tr) ==
    LET IsCall(ev) == ev \in ReleaseCalls IN SelectSeq(tr, IsCall)
LaunchIn(tr) ==
    LET IsLaunchEvent(ev) == ev \notin ReleaseCalls IN SelectSeq(tr, IsLaunchEvent)

\* the name of the path a complete trace of release() took
PathName(calls) ==
    CASE calls = PathEmpty -> "Empty"
      [] calls = PathCreateFailed -> "CreateFailed"
      [] calls = PathWriteFailed -> "WriteFailed"
      [] calls = PathLaunchPrepFailed -> "LaunchPrepFailed"
      [] calls = PathExecuted -> "Executed"
      [] OTHER -> "none"

C15_BufferUnderLock ==
    \A s \in Sessions :
      /\ Cardinality(InCopy(s)) + (IF rpc[s] = "take" THEN 1 ELSE 0) <= 1
      /\ \A t \in Threads : wpc[s][t] = "copy" <=> lock[s] = Writer(t)
      /\ rpc[s] = "take" <=> lock[s] = Closer
      /\ \A i \in 1 .. Len(wlog[s]) :
           /\ Len(wlog[s][i].post) >= Len(wlog[s][i].pre)
           /\ i > 1 => wlog[s][i].pre = wlog[s][i - 1].post
      /\ \A t \in InCopy(s) :
           /\ Len(buffer[s]) >= Len(wpre[s][t])
           /\ Len(wlog[s]) > 0 => wpre[s][t] = wlog[s][Len(wlog[s])].post
      /\ (~TookBuffer(s) /\ InCopy(s) = { } /\ Len(wlog[s]) > 0) =>
           buffer[s] = wlog[s][Len(wlog[s])].post

C15_Witness ==
    \E s \in Sessions :
      /\ lock[s] = Writer(2)
      /\ wdone[s][2] = 1
      /\ Len(wlog[s]) = 1
      /\ Len(buffer[s]) = 2

\* C16: the launch request names descriptor 3 of the process itself as its
\* program path and as its only argument and has an empty environment, and
\* the callback installs the shmem file at that same descriptor, so the
\* path the helper executes resolves to the injected file.
C16_PathNamesInjectedDescriptor ==
    \A s \in Sessions :
      /\ ~subInfo[s].null =>
           /\ subInfo[s].path = 3
           /\ subInfo[s].argv = << 3 >>
           /\ subInfo[s].envp = << >>
           /\ subInfo[s].init = "kmod_devexec_init"
           /\ subInfo[s].data = memFile[s]
      /\ child[s] \in { "preexec", "running" } =>
           /\ ~subInfo[s].null
           /\ childFds[s][subInfo[s].path] = memFile[s]
           /\ HasImage(s)
      /\ child[s] = "running" => childProg[s] = imgData[memFile[s]]

C16_Witness ==
    \E s \in Sessions :
      /\ child[s] = "running"
      /\ childFds[s][3] = memFile[s]
      /\ childProg[s] = << 34, 51 >>

\* C17: with several threads writing to one instance, every payload goes
\* into the buffer as one block: the buffer is the successful payloads, whole
\* and in the order their writes got the mutex, followed by what the one
\* write inside has copied so far; release() takes the buffer only when no
\* write is inside, so every write is in the taken buffer whole.
C17_PayloadsWhole ==
    \A s \in Sessions :
      /\ (~TookBuffer(s) /\ InCopy(s) # { }) =>
           \E t \in Threads :
             /\ InCopy(s) = { t }
             /\ buffer[s] = Flatten(OkInputs(wlog[s]))
                              \o Prefix(winput[s][t], wdone[s][t])
      /\ (~TookBuffer(s) /\ InCopy(s) = { }) =>
           buffer[s] = Flatten(OkInputs(wlog[s]))
      /\ rpc[s] # "none" => InCopy(s) = { }
      /\ TookBuffer(s) => taken[s] = Flatten(OkInputs(wlog[s]))

C17_Witness ==
    \E s \in Sessions :
      /\ InCopy(s) = { 2 }
      /\ winput[s][2] = << 34, 51 >>
      /\ buffer[s] = << 17, 34 >>

\* C18: a write that fails with ENOMEM leaves the buffer as it was and the
\* session Open, and the helper of a later close runs exactly the bytes of
\* the writes that succeeded.
C18_FailedWriteLeavesNoTrace ==
    \A s \in Sessions :
      /\ \A i \in 1 .. Len(wlog[s]) :
           ~wlog[s][i].res.ok =>
             /\ wlog[s][i].res.err = "ENOMEM"
             /\ wlog[s][i].post = wlog[s][i].pre
      /\ (rpc[s] = "none" /\ Len(wlog[s]) > 0) => sstate[s] = "Open"
      /\ (child[s] = "running"
            /\ \E i \in 1 .. Len(wlog[s]) : ~wlog[s][i].res.ok) =>
           childProg[s] = Flatten(OkInputs(wlog[s]))

\* what tells that an operation on session s has taken a step
OwnSteps(s) == << sstate[s], wpc[s], wdone[s], rpc[s], child[s] >>

\* C19: a session starts with an empty buffer of its own; a step of an
\* open, write or release on another session changes neither its buffer nor
\* what was taken from it nor its image; so the image a session's close
\* launches holds only bytes of that session's own successful writes, from
\* the first one on.
C19_SessionsIsolated ==
    /\ [](\A s \in Sessions :
            /\ (sstate[s] = "Open" /\ wlog[s] = << >> /\ InCopy(s) = { }) =>
                 buffer[s] = << >>
            /\ IsPrefix(taken[s], Flatten(OkInputs(wlog[s])))
            /\ HasImage(s) =>
                 /\ IsPrefix(imgData[memFile[s]], taken[s])
                 /\ \A r \in Sessions \ { s } : memFile[r] # memFile[s]
            /\ child[s] = "running" =>
                 IsPrefix(childProg[s], Flatten(OkInputs(wlog[s]))))
    /\ [][\A s \in Sessions :
            OwnSteps(s)' = OwnSteps(s) =>
              /\ buffer'[s] = buffer[s]
              /\ taken'[s] = taken[s]
              /\ wlog'[s] = wlog[s]
              /\ childProg'[s] = childProg[s]
              /\ HasImage(s) =>
                   imgData'[memFile[s]] = imgData[memFile[s]]]_vars

C19_Witness ==
    /\ \A s \in Sessions : child[s] = "running"
    /\ childProg[1] = << 17 >>
    /\ childProg[2] = << 34, 51 >>

====
